---- MODULE Spec2Model ----
(***************************************************************************)
(* Model of the GCC land-use/land-cover scripts: the composite-building    *)
(* script (cloud masking, spectral indices, gap filling, band selection,   *)
(* band correlations), the class-area script (class tables, legend,        *)
(* per-class areas) and the classification script (train/test split,       *)
(* random forest, error matrix).                                           *)
(*                                                                         *)
(* A raster is followed at one pixel location: an image is a function from *)
(* band names to a pixel [v |-> value, m |-> validity]; a collection is a  *)
(* sequence of images.  Values are exact rationals <<num, den>> in lowest  *)
(* terms with den > 0, so that band arithmetic is computed, not assumed.   *)
(***************************************************************************)
EXTENDS Integers, Sequences, FiniteSets, TLC

VARIABLES
    pc,        \* position in the script being run
    sensor,    \* which sensor path the run follows
    inRegion,  \* whether the pixel followed lies inside region (line 129)
    zeroDivision, \* what the platform makes of a quotient by zero
    raw,       \* the filtered input collection, kept as loaded
    coll,      \* the collection as mapped so far
    comp,      \* the temporal-median composite (l8 / l7compositeMasked)
    image,     \* the band-selected image (line 161)
    strip,     \* one row of pixels of one band, for the focal operation
    filled,    \* the row after fillGap
    sample,    \* the features sampled from the band-selected image (line 178)
    correlations, \* the pairwise correlation matrix (line 193)
    classes,   \* area script: class value -> name
    classValues, \* area script: names of the legend rows
    palette,   \* area script: colours of the legend rows and of the layer
    classified,\* area script: pixel values of the classified image
    areas,     \* area script: the per-class area features
    classifiedImage, \* area script: the colour visualize gives each pixel
    legend,    \* area script: widgets added to the legend panel so far
    iLegend,   \* area script: the loop index i of the legend loop
    samples,   \* classification script: the sampled points with their random column
    training,  \* classification script: samples.filter(lt('random', split))
    testing,   \* classification script: samples.filter(gte('random', split))
    trainFeatures, \* classification script: training.select(...)
    trainedRF, \* classification script: the trained classifier
    classifiedRF, \* classification script: testing.classify(trainedRF)
    confusionMatrixRF, \* classification script: the error matrix of classifiedRF
    classificationMetrics \* classification script: the exported metrics

areaVars == <<classes, classValues, palette, classified, areas, classifiedImage, legend, iLegend>>
classifyVars == <<samples, training, testing, trainFeatures, trainedRF, classifiedRF,
                  confusionMatrixRF, classificationMetrics>>
vars == <<pc, sensor, inRegion, zeroDivision, raw, coll, comp, image, strip, filled, sample, correlations,
          areaVars, classifyVars>>

-----------------------------------------------------------------------------
(* Bounds of the model *)

NObs == 2          \* at most this many images in a filtered collection
MaxRefl == 2       \* band values of the index runs range over 0..MaxRefl
GridW == 4         \* pixels in the row the focal operation runs over
NPix == 2          \* pixels of the classified image

-----------------------------------------------------------------------------
(* Exact rational arithmetic *)

Abs(x) == IF x < 0 THEN -x ELSE x

RECURSIVE Gcd(_, _)
Gcd(a, b) == IF b = 0 THEN a ELSE Gcd(b, a % b)

\* <<n, d>> in lowest terms with a positive denominator (d # 0)
RNorm(n, d) ==
    LET g == Gcd(Abs(n), Abs(d))
        s == IF d < 0 THEN -1 ELSE 1
    IN  <<(s * n) \div g, (s * d) \div g>>

RInt(n) == <<n, 1>>
RAdd(a, b) == RNorm(a[1] * b[2] + b[1] * a[2], a[2] * b[2])
RSub(a, b) == RNorm(a[1] * b[2] - b[1] * a[2], a[2] * b[2])
RMul(a, b) == RNorm(a[1] * b[1], a[2] * b[2])
RQuot(a, b) == RNorm(a[1] * b[2], a[2] * b[1])     \* b # 0
RLess(a, b) == a[1] * b[2] < b[1] * a[2]
RZero == RInt(0)

-----------------------------------------------------------------------------
(* Per-pixel band values and the platform's image algebra *)

Px(val, msk) == [v |-> val, m |-> msk]
Const(n, d) == Px(RNorm(n, d), 1)
Masked == Px(RZero, 0)

MinOf(S) == CHOOSE x \in S : \A y \in S : x <= y
Both(a, b) == IF a.m = 1 /\ b.m = 1 THEN 1 ELSE 0

Add(a, b) == Px(RAdd(a.v, b.v), Both(a, b))
Subtract(a, b) == Px(RSub(a.v, b.v), Both(a, b))
Multiply(a, b) == Px(RMul(a.v, b.v), Both(a, b))

\* The scripts divide (divide, the '/' of expression, normalizedDifference)
\* and test no divisor; what a quotient by zero becomes is the platform's
\* answer, which no line of the scripts fixes.  Both answers are followed: a
\* valid 0 (what the reference of Image.divide documents) and an invalid
\* pixel.  The sensor paths that divide nowhere do not consult it.
ZeroDivisionOutcomes == {"zero", "invalid"}

\* a quotient of two pixels
Divide(a, b) ==
    IF b.v = RZero
    THEN IF zeroDivision = "zero" THEN Px(RZero, Both(a, b)) ELSE Masked
    ELSE Px(RQuot(a.v, b.v), Both(a, b))

RECURSIVE Pow(_, _)
Pow(a, n) == IF n = 0 THEN Px(RInt(1), a.m) ELSE Multiply(a, Pow(a, n - 1))

RECURSIVE BitAnd(_, _)
BitAnd(a, b) ==
    IF a = 0 \/ b = 0 THEN 0
    ELSE (a % 2) * (b % 2) + 2 * BitAnd(a \div 2, b \div 2)

Shl(k) == 2 ^ k

bitwiseAnd(a, k) == Px(RInt(BitAnd(a.v[1], k)), a.m)
Eq(a, n) == Px(RInt(IF a.v = RInt(n) THEN 1 ELSE 0), a.m)
And(a, b) == Px(RInt(IF a.v # RZero /\ b.v # RZero THEN 1 ELSE 0), Both(a, b))
Or(a, b) == Px(RInt(IF a.v # RZero \/ b.v # RZero THEN 1 ELSE 0), Both(a, b))
Not(a) == Px(RInt(IF a.v = RZero THEN 1 ELSE 0), a.m)

Bands(img) == DOMAIN img

\* Faulty variant: a mask update that also clears the value of a masked pixel
updateMaskZeroing(img, mask) ==
    [b \in Bands(img) |->
        IF img[b].m = 1 /\ mask.m = 1 /\ mask.v # RZero THEN img[b] ELSE Masked]

\* image.updateMask(mask): every band keeps its value; its validity is
\* multiplied by the mask, a mask pixel that is itself invalid counting as 0.
updateMask(img, mask) ==
    [b \in Bands(img) |->
        Px(img[b].v, IF img[b].m = 1 /\ mask.m = 1 /\ mask.v # RZero THEN 1 ELSE 0)]

\* Faulty variant: the prior validity of the other bands is ignored
MaskMinIgnored(img) == Px(RInt(1), 1)

\* image.mask().reduce(ee.Reducer.min()): the least validity over all bands
MaskMin(img) == Px(RInt(MinOf({img[b].m : b \in Bands(img)})), 1)

-----------------------------------------------------------------------------
(* Cloud masking, lines 25-46 *)

\* Faulty variant: the shadow bit taken one position off
cloudShadowBitMaskOff == Shl(4)

cloudShadowBitMask == Shl(3)
cloudsBitMask == Shl(5)

maskL8sr(img) ==
    LET qa == img["QA_PIXEL"]
        mask == And(Eq(bitwiseAnd(qa, cloudShadowBitMask), 0),
                    Eq(bitwiseAnd(qa, cloudsBitMask), 0))
    IN  updateMask(img, mask)

maskL7sr(img) ==
    LET qa == img["QA_PIXEL"]
        cloud == Or(And(bitwiseAnd(qa, Shl(5)), bitwiseAnd(qa, Shl(7))),
                    bitwiseAnd(qa, Shl(3)))
        maskL7 == MaskMin(img)
    IN  updateMask(updateMask(img, Not(cloud)), maskL7)

-----------------------------------------------------------------------------
(* Temporal median of a collection, per band over the valid observations *)

ValidObs(c, b) == {i \in DOMAIN c : c[i][b].m = 1}

\* The values of S (indexed by I) in non-decreasing order
RECURSIVE SortVals(_, _)
SortVals(c, I) ==
    IF I = {} THEN <<>>
    ELSE LET i == CHOOSE k \in I : \A j \in I : ~RLess(c[j], c[k])
         IN  <<c[i]>> \o SortVals(c, I \ {i})

MedianOfValid(vals, I) ==
    LET s == SortVals(vals, I)
        n == Len(s)
    IN  IF n = 0 THEN Masked
        ELSE IF n % 2 = 1 THEN Px(s[(n + 1) \div 2], 1)
        ELSE Px(RMul(RAdd(s[n \div 2], s[n \div 2 + 1]), RNorm(1, 2)), 1)

MedianBand(c, b) == MedianOfValid([i \in DOMAIN c |-> c[i][b].v], ValidObs(c, b))

Median(c) == [b \in Bands(c[1]) |-> MedianBand(c, b)]

-----------------------------------------------------------------------------
(* Band bookkeeping: rename, addBands (overwrite = false), select *)

Rename(px, name) == (name :> px)

\* The name a band b gets when added to an image whose bands are dom:
\* b itself, or b_1, b_2, ... (the first that is free) when b is taken.
FreshName(b, dom) ==
    IF b \notin dom THEN b
    ELSE LET k == MinOf({j \in 1..9 : (b \o "_" \o ToString(j)) \notin dom})
         IN  b \o "_" \o ToString(k)

RECURSIVE AddImage(_, _, _)
AddImage(dst, src, todo) ==
    IF todo = {} THEN dst
    ELSE LET b == CHOOSE x \in todo : TRUE
         IN  AddImage(dst @@ (FreshName(b, DOMAIN dst) :> src[b]), src, todo \ {b})

\* Faulty variant: the added bands alone, the bands of the image dropped
addBandsOnlyNew(img, list) ==
    [b \in UNION {DOMAIN list[k] : k \in DOMAIN list} |->
        LET k == CHOOSE j \in DOMAIN list : b \in DOMAIN list[j] IN list[k][b]]

RECURSIVE addBands(_, _)
addBands(img, list) ==
    IF list = <<>> THEN img
    ELSE addBands(AddImage(img, Head(list), DOMAIN Head(list)), Tail(list))

select(img, names) == [b \in names |-> img[b]]

\* The elevation model at the pixel and the slope derived from it
dem == ("elevation" :> Const(5, 1)) @@ ("num" :> Const(1, 1)) @@ ("swb" :> Const(0, 1))
TerrainSlope(d) == Px(RInt(3), d["elevation"].m)

normalizedDifference(img, b1, b2) ==
    LET a == img[b1]
        b == img[b2]
    IN  IF a.v[1] < 0 \/ b.v[1] < 0 THEN Masked
        ELSE Divide(Subtract(a, b), Add(a, b))

-----------------------------------------------------------------------------
(* Spectral indices, lines 57-118 *)

addIndicesL5(img) ==
    LET blue == Rename(img["SR_B1"], "blue")
        green == Rename(img["SR_B2"], "green")
        red == Rename(img["SR_B3"], "red")
        nir == Rename(img["SR_B4"], "nir")
        swir1 == Rename(img["SR_B5"], "swir1")
        swir2 == Rename(img["SR_B7"], "swir2")
        B1 == img["SR_B1"]
        B2 == img["SR_B2"]
        B3 == img["SR_B3"]
        B4 == img["SR_B4"]
        B5 == img["SR_B5"]
        B7 == img["SR_B7"]
        ndviPx == normalizedDifference(img, "SR_B4", "SR_B3")
        ndwiPx == normalizedDifference(img, "SR_B2", "SR_B4")
        ndvi == Rename(ndviPx, "NDVI")
        ndmi == Rename(normalizedDifference(img, "SR_B7", "SR_B2"), "NDMI")
        ndwi == Rename(ndwiPx, "NDWI")
        mndwi == Rename(normalizedDifference(img, "SR_B2", "SR_B5"), "MNDWI")
        sr == Rename(Divide(B4, B3), "SR")
        gcvi == Rename(Subtract(Divide(B4, B2), Const(1, 1)), "GCVI")
        savi == Rename(Divide(Multiply(Const(3, 2), Subtract(B4, B3)),
                              Add(Add(B4, B3), Const(1, 2))), "SAVI")
        evi == Rename(Divide(Multiply(Const(5, 2), Subtract(B4, B3)),
                             Add(Subtract(Add(B4, Multiply(Const(6, 1), B3)),
                                          Multiply(Const(15, 2), B1)),
                                 Const(1, 1))), "EVI")
        cmri == Rename(Subtract(ndviPx, ndwiPx), "CMRI")
        \* (NIR - GREEN) / (SWIR - GREEN), SWIR: SR_B7
        mvi == Rename(Divide(Subtract(B4, B2), Subtract(B7, B2)), "MVI")
        \* (NIR - GREEN) / (GREEN - NIR), GREEN: SR_B3
        gndvi == Rename(Divide(Subtract(B4, B3), Subtract(B3, B4)), "GNDVI")
        \* (NIR * (1 - RED) * (NIR - RED))**1/3: the power binds before the division
        avi == Rename(Divide(Pow(Multiply(Multiply(B4, Subtract(Const(1, 1), B3)),
                                          Subtract(B4, B3)), 1),
                             Const(3, 1)), "AVI")
        \* (SWIR) / (NIR), NIR: SR_B5, SWIR: SR_B7
        msi == Rename(Divide(B7, B5), "MSI")
        gci == Rename(Subtract(Divide(B4, B2), Const(1, 1)), "GCI")
        \* ((SWIR + RED)-(NIR + BLUE))/((SWIR + RED))+(NIR + BLUE), SWIR: SR_B7
        bsi == Rename(Add(Divide(Subtract(Add(B7, B3), Add(B4, B1)), Add(B7, B3)),
                          Add(B4, B1)), "BSI")
        psri == Rename(Divide(Subtract(B3, B4), B2), "PSRI")
        lai == Rename(Subtract(Multiply(Const(3618, 1000), ndviPx),
                               Const(118, 1000)), "LAI")
        slope == TerrainSlope(dem)
    IN  addBands(img, <<blue, green, red, nir, swir1, swir2, ndvi, ndmi, ndwi,
                        mndwi, sr, gcvi, savi, evi, cmri, mvi, gndvi, avi, msi,
                        gci, bsi, psri, lai, dem, Rename(slope, "slope")>>)

\* Faulty variant: the older-sensor variant applied on the newer-sensor path
addIndicesOlderVariant(img) == addIndicesL5(img)

addIndicesL8(img) ==
    LET blue == Rename(img["SR_B2"], "blue")
        green == Rename(img["SR_B3"], "green")
        red == Rename(img["SR_B4"], "red")
        nir == Rename(img["SR_B5"], "nir")
        swir1 == Rename(img["SR_B6"], "swir1")
        swir2 == Rename(img["SR_B7"], "swir2")
        B2 == img["SR_B2"]
        B3 == img["SR_B3"]
        B4 == img["SR_B4"]
        B5 == img["SR_B5"]
        B6 == img["SR_B6"]
        ndviPx == normalizedDifference(img, "SR_B5", "SR_B4")
        ndwiPx == normalizedDifference(img, "SR_B3", "SR_B5")
        ndvi == Rename(ndviPx, "NDVI")
        ndmi == Rename(normalizedDifference(img, "SR_B7", "SR_B3"), "NDMI")
        ndwi == Rename(ndwiPx, "NDWI")
        mndwi == Rename(normalizedDifference(img, "SR_B3", "SR_B6"), "MNDWI")
        sr == Rename(Divide(B5, B4), "SR")
        ratio54 == Rename(Divide(B6, B5), "R54")
        ratio35 == Rename(Divide(B4, B6), "R35")
        \* (NIR/GREEN)-1
        gcvi == Rename(Subtract(Divide(B5, B3), Const(1, 1)), "GCVI")
        \* 1.5 * (NIR - RED) / (NIR + RED + 0.5)
        savi == Rename(Divide(Multiply(Const(3, 2), Subtract(B5, B4)),
                              Add(Add(B5, B4), Const(1, 2))), "SAVI")
        \* 2.5 * (NIR - RED) / (NIR + 6 * RED - 7.5 * BLUE + 1)
        evi == Rename(Divide(Multiply(Const(5, 2), Subtract(B5, B4)),
                             Add(Subtract(Add(B5, Multiply(Const(6, 1), B4)),
                                          Multiply(Const(15, 2), B2)),
                                 Const(1, 1))), "EVI")
        cmri == Rename(Subtract(ndviPx, ndwiPx), "CMRI")
        \* (NIR - GREEN) / (SWIR1 - GREEN)
        mvi == Rename(Divide(Subtract(B5, B3), Subtract(B6, B3)), "MVI")
        \* (SWIR1) / (NIR)
        msi == Rename(Divide(B6, B5), "MSI")
        \* (NIR / GREEN) - 1
        gci == Rename(Subtract(Divide(B5, B3), Const(1, 1)), "GCI")
        \* ((SWIR1 + RED)-(NIR + BLUE))/((SWIR1 + RED)+(NIR + BLUE))
        bsi == Rename(Divide(Subtract(Add(B6, B4), Add(B5, B2)),
                             Add(Add(B6, B4), Add(B5, B2))), "BSI")
        \* (RED - NIR) / GREEN
        psri == Rename(Divide(Subtract(B4, B5), B3), "PSRI")
        \* 3.618 * NDVI - 0.118
        lai == Rename(Subtract(Multiply(Const(3618, 1000), ndviPx),
                               Const(118, 1000)), "LAI")
        slope == TerrainSlope(dem)
    IN  addBands(img, <<blue, green, red, nir, swir1, swir2, ndvi, ndmi, ndwi,
                        mndwi, sr, gcvi, savi, evi, mvi, msi, gci, bsi, psri,
                        lai, dem, Rename(slope, "slope")>>)

\* image.clip(region) at the pixel followed: a pixel outside the geometry is
\* masked in every band, its values kept
clip(img, inside) == [b \in DOMAIN img |-> Px(img[b].v, IF inside THEN img[b].m ELSE 0)]

selectedBands == {"NDVI", "EVI", "MVI", "MSI", "BSI", "elevation", "slope"}

\* var bands = [...], lines 155-158 (the names the correlations run over)
bands == <<"blue", "green", "red", "nir", "swir1", "swir2",
           "elevation", "NDVI", "NDMI", "NDWI", "SR", "GCVI",
           "SAVI", "EVI", "CMRI", "MVI", "GNDVI", "AVI", "MSI",
           "GCI", "BSI", "PSRI", "LAI", "slope">>

\* image.sample(...) at the one pixel location: a feature with one property
\* per band of the image; a pixel with a masked band gives no feature
imageSample(img) ==
    IF \A b \in DOMAIN img : img[b].m = 1
    THEN <<[b \in DOMAIN img |-> img[b].v]>>
    ELSE <<>>

\* collection.reduceColumns(correlate, selectors): the reducer is given, per
\* feature, the values of the selected properties; a selector that is not a
\* property of a feature leaves the reducer without that input
reduceColumns(c, selectors) ==
    [missing |-> \E k \in DOMAIN c : \E n \in DOMAIN selectors : selectors[n] \notin DOMAIN c[k],
     inputs |-> [k \in {l \in DOMAIN c : \A n \in DOMAIN selectors : selectors[n] \in DOMAIN c[l]} |->
                   [n \in DOMAIN selectors |-> c[k][selectors[n]]]]]

\* reduced(b1, b2), lines 188-190
reduced(smp, b1, b2) == reduceColumns(smp, <<b1, b2>>)

-----------------------------------------------------------------------------
(* Gap filling along one row of pixels of one band, lines 141-143 *)

RECURSIVE SumVals(_, _)
SumVals(row, I) ==
    IF I = {} THEN RZero
    ELSE LET i == CHOOSE k \in I : TRUE
         IN  RAdd(row[i].v, SumVals(row, I \ {i}))

\* The square kernel of the given radius (num/den pixels) around pixel p
Kernel(row, p, num, den) == {q \in DOMAIN row : den * Abs(q - p) <= num}

\* One pass of the mean filter: the mean of the valid pixels under the
\* kernel, invalid where the kernel covers no valid pixel.
FocalMeanPass(row, num, den) ==
    [p \in DOMAIN row |->
        LET V == {q \in Kernel(row, p, num, den) : row[q].m = 1}
        IN  IF V = {} THEN Masked
            ELSE Px(RQuot(SumVals(row, V), RInt(Cardinality(V))), 1)]

RECURSIVE focal_mean(_, _, _, _)
focal_mean(row, num, den, iterations) ==
    IF iterations = 0 THEN row
    ELSE focal_mean(FocalMeanPass(row, num, den), num, den, iterations - 1)

\* bottom.blend(top): top wherever top is valid, bottom elsewhere
blend(bottom, top) ==
    [p \in DOMAIN bottom |-> IF top[p].m = 1 THEN top[p] ELSE bottom[p]]

\* Faulty variant: the smoothed image laid over the original
fillGapSmoothedOnTop(row) == blend(row, focal_mean(row, 3, 2, 2))

fillGap(row) == blend(focal_mean(row, 3, 2, 2), row)

-----------------------------------------------------------------------------
(* The composite script as a state machine *)

None == <<>>

L8BandNames == {"SR_B1", "SR_B2", "SR_B3", "SR_B4", "SR_B5", "SR_B6", "SR_B7", "QA_PIXEL"}
L7BandNames == {"SR_B1", "SR_B2", "SR_B3", "SR_B4", "SR_B5", "SR_B7", "QA_PIXEL"}
SensorBands(s) == IF s = "L8" THEN L8BandNames ELSE L7BandNames

\* Inputs of the cloud runs: several observations of the pixel; the quality
\* band and one reflectance band vary in value and validity.
QAVals == {0, 8, 32, 40, 128, 160}
CloudVals == {2, 6}

CloudImage(names, q, qm, val, vm) ==
    [b \in names |->
        IF b = "QA_PIXEL" THEN Px(RInt(q), qm)
        ELSE IF b = "SR_B4" THEN Px(RInt(val), vm)
        ELSE Const(1, 1)]

CloudImages(s) ==
    {CloudImage(SensorBands(s), q, qm, val, vm) :
        q \in QAVals, qm \in {0, 1}, val \in CloudVals, vm \in {0, 1}}

\* Inputs of the index runs: one clear observation of a pixel inside region,
\* every reflectance band varying over 0..MaxRefl.
IndexImages(s) ==
    {[b \in SensorBands(s) |-> IF b = "QA_PIXEL" THEN Const(0, 1) ELSE Px(RInt(f[b]), 1)] :
        f \in [SensorBands(s) \ {"QA_PIXEL"} -> 0..MaxRefl]}

\* Inputs of the row runs: a row of one band of a masked older-sensor image
RowVals == {1, 2, 4}
Rows == [1..GridW -> {Px(RInt(x), m) : x \in RowVals, m \in {0, 1}}]

\* A collection is a bag of images: the order of its images is immaterial to
\* map and median, so each bag is listed once, in non-decreasing key order.
ImageKey(img) ==
    100 * img["QA_PIXEL"].v[1] + 50 * img["QA_PIXEL"].m
        + 2 * img["SR_B4"].v[1] + img["SR_B4"].m

Collections(s) ==
    {c \in UNION {[1..n -> CloudImages(s)] : n \in 1..NObs} :
        \A i \in 1..(Len(c) - 1) : ImageKey(c[i]) <= ImageKey(c[i + 1])}

InitPixel ==
    /\ pc = "filtered"
    /\ \/ /\ sensor \in {"L8", "L7"}
          /\ raw \in Collections(sensor)
          /\ inRegion \in BOOLEAN
       \/ /\ sensor = "L8"
          /\ raw \in [1..1 -> IndexImages(sensor)]
          /\ inRegion = TRUE
    /\ zeroDivision \in IF sensor = "L8" THEN ZeroDivisionOutcomes ELSE {"unused"}
    /\ coll = raw
    /\ comp = None
    /\ image = None
    /\ strip = None
    /\ filled = None

InitRow ==
    /\ pc = "rowMasked"
    /\ sensor = "L7"
    /\ inRegion = None
    /\ zeroDivision = "unused"
    /\ raw = None
    /\ coll = None
    /\ comp = None
    /\ image = None
    /\ strip \in Rows
    /\ filled = None

Init ==
    /\ InitPixel \/ InitRow
    /\ sample = None /\ correlations = None
    /\ classes = None /\ classValues = None /\ palette = None
    /\ classified = None /\ areas = None /\ classifiedImage = None
    /\ legend = None /\ iLegend = None
    /\ samples = None /\ training = None /\ testing = None
    /\ trainFeatures = None /\ trainedRF = None /\ classifiedRF = None
    /\ confusionMatrixRF = None /\ classificationMetrics = None

\* L8...map(maskL8sr), line 135
MapMaskL8sr ==
    /\ pc = "filtered" /\ sensor = "L8"
    /\ coll' = [k \in DOMAIN coll |-> maskL8sr(coll[k])]
    /\ pc' = "masked"
    /\ UNCHANGED <<sensor, inRegion, zeroDivision, raw, comp, image, strip, filled, sample, correlations, areaVars, classifyVars>>

\* ...map(addIndicesL8), line 136
MapAddIndicesL8 ==
    /\ pc = "masked" /\ sensor = "L8"
    /\ coll' = [k \in DOMAIN coll |-> addIndicesL8(coll[k])]
    /\ pc' = "indexed"
    /\ UNCHANGED <<sensor, inRegion, zeroDivision, raw, comp, image, strip, filled, sample, correlations, areaVars, classifyVars>>

\* l8 = l8Masked.median(), line 138
MedianL8 ==
    /\ pc = "indexed" /\ sensor = "L8"
    /\ comp' = Median(coll)
    /\ pc' = "composite"
    /\ UNCHANGED <<sensor, inRegion, zeroDivision, raw, coll, image, strip, filled, sample, correlations, areaVars, classifyVars>>

\* image = l8.select(selectedBands).clip(region), line 161
SelectBands ==
    /\ pc = "composite" /\ sensor = "L8"
    /\ image' = clip(select(comp, selectedBands), inRegion)
    /\ pc' = "selected"
    /\ UNCHANGED <<sensor, inRegion, zeroDivision, raw, coll, comp, strip, filled, sample, correlations, areaVars, classifyVars>>

\* sample = image.sample({...}), lines 178-182
SampleImage ==
    /\ pc = "selected" /\ sensor = "L8"
    /\ sample' = imageSample(image)
    /\ pc' = "imageSampled"
    /\ UNCHANGED <<sensor, inRegion, zeroDivision, raw, coll, comp, image, strip, filled, correlations, areaVars, classifyVars>>

\* correlations = ee.List(bands).map(... reduced(band, otherBand) ...), lines 193-199
Correlate ==
    /\ pc = "imageSampled" /\ sensor = "L8"
    /\ correlations' = [n \in DOMAIN bands |->
                           [o \in DOMAIN bands |-> reduced(sample, bands[n], bands[o])]]
    /\ pc' = "correlated"
    /\ UNCHANGED <<sensor, inRegion, zeroDivision, raw, coll, comp, image, strip, filled, sample, areaVars, classifyVars>>

\* L7...map(maskL7sr), line 148
MapMaskL7sr ==
    /\ pc = "filtered" /\ sensor = "L7"
    /\ coll' = [k \in DOMAIN coll |-> maskL7sr(coll[k])]
    /\ pc' = "masked"
    /\ UNCHANGED <<sensor, inRegion, zeroDivision, raw, comp, image, strip, filled, sample, correlations, areaVars, classifyVars>>

\* l7compositeMasked = l7Masked.median().clip(region), line 149
MedianL7 ==
    /\ pc = "masked" /\ sensor = "L7"
    /\ comp' = clip(Median(coll), inRegion)
    /\ pc' = "composite"
    /\ UNCHANGED <<sensor, inRegion, zeroDivision, raw, coll, image, strip, filled, sample, correlations, areaVars, classifyVars>>

\* l7Fill = l7Masked.map(fillGap), line 152
MapFillGap ==
    /\ pc = "rowMasked"
    /\ filled' = fillGap(strip)
    /\ pc' = "rowFilled"
    /\ UNCHANGED <<sensor, inRegion, zeroDivision, raw, coll, comp, image, strip, sample, correlations, areaVars, classifyVars>>

Next ==
    \/ MapMaskL8sr
    \/ MapAddIndicesL8
    \/ MedianL8
    \/ SelectBands
    \/ SampleImage
    \/ Correlate
    \/ MapMaskL7sr
    \/ MedianL7
    \/ MapFillGap

Spec == Init /\ [][Next]_vars

-----------------------------------------------------------------------------
(* The functions of the script, called on an image.  The script defines    *)
(* addIndicesL5 (lines 91-118) and maps it over no collection: no run of   *)
(* the script passes through it.  What the function returns is followed by *)
(* calling it on an argument: raw holds the argument and coll the returned *)
(* image, each as a one-image list.  The runs of the script are kept, so   *)
(* that the two index functions are seen side by side.                     *)

InitCallL5 ==
    /\ pc = "called"
    /\ sensor = "L5"
    /\ inRegion = None
    /\ zeroDivision \in ZeroDivisionOutcomes
    /\ raw \in [1..1 -> IndexImages("L5")]
    /\ coll = raw
    /\ comp = None /\ image = None /\ strip = None /\ filled = None
    /\ sample = None /\ correlations = None
    /\ classes = None /\ classValues = None /\ palette = None
    /\ classified = None /\ areas = None /\ classifiedImage = None
    /\ legend = None /\ iLegend = None
    /\ samples = None /\ training = None /\ testing = None
    /\ trainFeatures = None /\ trainedRF = None /\ classifiedRF = None
    /\ confusionMatrixRF = None /\ classificationMetrics = None

InitFunctions == Init \/ InitCallL5

\* addIndicesL5(img), lines 91-118, called on the argument
CallAddIndicesL5 ==
    /\ pc = "called" /\ sensor = "L5"
    /\ coll' = [k \in DOMAIN coll |-> addIndicesL5(coll[k])]
    /\ pc' = "returned"
    /\ UNCHANGED <<sensor, inRegion, zeroDivision, raw, comp, image, strip, filled, sample, correlations, areaVars, classifyVars>>

NextFunctions ==
    \/ MapMaskL8sr
    \/ MapAddIndicesL8
    \/ MedianL8
    \/ SelectBands
    \/ SampleImage
    \/ Correlate
    \/ MapMaskL7sr
    \/ MedianL7
    \/ MapFillGap
    \/ CallAddIndicesL5

SpecFunctions == InitFunctions /\ [][NextFunctions]_vars

-----------------------------------------------------------------------------
(* Vocabulary of the properties *)

BitSet(q, k) == (q \div (2 ^ k)) % 2 = 1
QAOf(img) == img["QA_PIXEL"].v[1]

\* The k-th smallest of the values vals[i], i \in I
KthSmallest(vals, I, k) ==
    CHOOSE a \in {vals[i] : i \in I} :
        /\ Cardinality({i \in I : RLess(vals[i], a)}) < k
        /\ k <= Cardinality({i \in I : ~RLess(a, vals[i])})

\* The median of the values vals[i], i \in I (I not empty): the middle value,
\* or the midpoint of the two middle values
MiddleValue(vals, I) ==
    LET n == Cardinality(I)
        lo == KthSmallest(vals, I, (n + 1) \div 2)
        hi == KthSmallest(vals, I, n \div 2 + 1)
    IN  RMul(RAdd(lo, hi), RNorm(1, 2))

ValuesOf(c, b) == [i \in DOMAIN c |-> c[i][b].v]

\* The observations of band b the newer-sensor mask lets through
ClearL8(b) ==
    {i \in DOMAIN raw :
        /\ raw[i][b].m = 1
        /\ raw[i]["QA_PIXEL"].m = 1
        /\ ~BitSet(QAOf(raw[i]), 3)
        /\ ~BitSet(QAOf(raw[i]), 5)}

CloudL7(q) == (BitSet(q, 5) /\ BitSet(q, 7)) \/ BitSet(q, 3)

-----------------------------------------------------------------------------
(* C1 *)

\* C1: maskL8sr masks a previously valid pixel exactly when bit 3 or bit 5
\* of its QA_PIXEL value is set, and the temporal median of an input band is
\* taken over exactly the observations with neither bit set (and previously
\* valid): it is invalid when there is none, their median otherwise.
C1_MaskL8sr ==
    sensor = "L8" =>
        /\ pc = "masked" =>
              \A i \in DOMAIN coll : \A b \in DOMAIN raw[i] :
                  (raw[i][b].m = 1 /\ raw[i]["QA_PIXEL"].m = 1) =>
                      (coll[i][b].m = 0 <=>
                          (BitSet(QAOf(raw[i]), 3) \/ BitSet(QAOf(raw[i]), 5)))
        /\ pc = "composite" =>
              \A b \in DOMAIN raw[1] :
                  IF ClearL8(b) = {} THEN comp[b].m = 0
                  ELSE /\ comp[b].m = 1
                       /\ comp[b].v = MiddleValue(ValuesOf(raw, b), ClearL8(b))

\* Two valid observations of different value, one flagged (bit 3 or bit 5)
\* and one clear, have gone through the mask and the median.
C1_Witness ==
    /\ sensor = "L8" /\ pc = "composite" /\ Len(raw) = 2
    /\ \E i, j \in DOMAIN raw :
          /\ raw[i]["SR_B4"].m = 1 /\ raw[i]["QA_PIXEL"].m = 1
          /\ BitSet(QAOf(raw[i]), 5)
          /\ j \in ClearL8("SR_B4")
          /\ raw[i]["SR_B4"].v # raw[j]["SR_B4"].v
          /\ comp["SR_B4"] = Px(raw[j]["SR_B4"].v, 1)

-----------------------------------------------------------------------------
(* C2 *)

\* C2: after maskL7sr a pixel is valid in a band exactly when its QA value
\* is not cloud ((bit 5 and bit 7) or bit 3) and it was valid in every band
\* of the input; so a pixel invalid in one input band is invalid in all.
C2_MaskL7sr ==
    (sensor = "L7" /\ pc = "masked") =>
        \A i \in DOMAIN coll : \A b \in DOMAIN coll[i] :
            coll[i][b].m = 1 <=>
                /\ ~CloudL7(QAOf(raw[i]))
                /\ \A b2 \in DOMAIN raw[i] : raw[i][b2].m = 1

\* A clear observation whose quality band is invalid and whose reflectance
\* band is valid has been masked: the reflectance band came out invalid.
C2_Witness ==
    /\ sensor = "L7" /\ pc = "masked"
    /\ \E i \in DOMAIN raw :
          /\ ~CloudL7(QAOf(raw[i])) /\ BitSet(QAOf(raw[i]), 5)
          /\ raw[i]["QA_PIXEL"].m = 0
          /\ raw[i]["SR_B4"].m = 1
          /\ coll[i]["SR_B4"].m = 0
    /\ \E j \in DOMAIN raw :
          /\ ~CloudL7(QAOf(raw[j]))
          /\ coll[j]["SR_B4"].m = 1

-----------------------------------------------------------------------------
(* C8 *)

\* C8: maskL8sr and maskL7sr change only validity: every masked image has
\* the bands of its input and, in every band, the stored value of its input;
\* the temporal median then runs over the valid observations alone (a masked
\* observation is absent, it does not count as a zero), and is invalid where
\* no observation is valid; the older-sensor composite is the median clipped
\* to region, so outside region it stores the median and is invalid.
C8_MaskOnlyValidity ==
    /\ pc = "masked" =>
          \A i \in DOMAIN coll :
              /\ DOMAIN coll[i] = DOMAIN raw[i]
              /\ \A b \in DOMAIN raw[i] : coll[i][b].v = raw[i][b].v
    /\ pc = "composite" =>
          \A b \in DOMAIN comp :
              LET V == {i \in DOMAIN coll : coll[i][b].m = 1}
                  kept == sensor = "L8" \/ inRegion
              IN  IF V = {} THEN comp[b].m = 0
                  ELSE comp[b] = Px(MiddleValue(ValuesOf(coll, b), V), IF kept THEN 1 ELSE 0)

\* An observation masked as cloud still stores its non-zero value, and the
\* median of the two observations is the value of the valid one, not the
\* midpoint of that value and zero.
C8_Witness ==
    /\ sensor = "L7" /\ pc = "composite" /\ Len(raw) = 2
    /\ \E i, j \in DOMAIN coll :
          /\ raw[i]["SR_B4"].m = 1 /\ CloudL7(QAOf(raw[i]))
          /\ coll[i]["SR_B4"].m = 0
          /\ coll[i]["SR_B4"].v = raw[i]["SR_B4"].v
          /\ coll[i]["SR_B4"].v # RZero
          /\ coll[j]["SR_B4"].m = 1
          /\ comp["SR_B4"] = Px(coll[j]["SR_B4"].v, 1)
          /\ comp["SR_B4"].v # RMul(coll[j]["SR_B4"].v, RNorm(1, 2))

-----------------------------------------------------------------------------
(* Vocabulary of the index properties: the canonical bands of an indexed   *)
(* image and the formulas of the index table                               *)

Canon == {"blue", "green", "red", "nir", "swir1", "swir2"}
One == Const(1, 1)

NormDiff(a, b) == Divide(Subtract(a, b), Add(a, b))

\* The table's formula for an index name over the canonical bands of img
\* (AVI, a cube root, is stated through its cube below)
TableFormula(name, img) ==
    LET B == img["blue"]
        G == img["green"]
        R == img["red"]
        N == img["nir"]
        S1 == img["swir1"]
        S2 == img["swir2"]
        NDVI == NormDiff(N, R)
        NDWI == NormDiff(G, N)
    IN  CASE name = "NDVI" -> NDVI
          [] name = "NDMI" -> NormDiff(S2, G)
          [] name = "NDWI" -> NDWI
          [] name = "MNDWI" -> NormDiff(G, S1)
          [] name = "SR" -> Divide(N, R)
          [] name = "GCVI" -> Subtract(Divide(N, G), One)
          [] name = "SAVI" -> Divide(Multiply(Const(3, 2), Subtract(N, R)),
                                     Add(Add(N, R), Const(1, 2)))
          [] name = "EVI" -> Divide(Multiply(Const(5, 2), Subtract(N, R)),
                                    Add(Subtract(Add(N, Multiply(Const(6, 1), R)),
                                                 Multiply(Const(15, 2), B)), One))
          [] name = "CMRI" -> Subtract(NDVI, NDWI)
          [] name = "MVI" -> Divide(Subtract(N, G), Subtract(S1, G))
          [] name = "MSI" -> Divide(S1, N)
          [] name = "GCI" -> Subtract(Divide(N, G), One)
          [] name = "BSI" -> Divide(Subtract(Add(S1, R), Add(N, B)),
                                    Add(Add(S1, R), Add(N, B)))
          [] name = "PSRI" -> Divide(Subtract(R, N), G)
          [] name = "LAI" -> Subtract(Multiply(Const(3618, 1000), NDVI),
                                      Const(118, 1000))
          [] name = "GNDVI" -> Divide(Subtract(N, G), Subtract(G, N))

TableNames == {"NDVI", "NDMI", "NDWI", "MNDWI", "SR", "GCVI", "SAVI", "EVI", "CMRI",
               "MVI", "MSI", "GCI", "BSI", "PSRI", "LAI", "GNDVI"}

\* N * (1 - R) * (N - R), the radicand of AVI
AviRadicand(img) ==
    Multiply(Multiply(img["nir"], Subtract(One, img["red"])),
             Subtract(img["nir"], img["red"]))

\* the images an index function has returned: the mapped collection of the
\* script, or the result of the call
IndexedImages == IF pc \in {"indexed", "returned"} THEN {coll[i] : i \in DOMAIN coll} ELSE {}

-----------------------------------------------------------------------------
(* C3 *)

\* C3: every derived band emitted by addIndicesL8 and addIndicesL5 equals
\* the table's formula for its name over the canonical bands of the same
\* image, and AVI is the cube root of N*(1-R)*(N-R) (its cube is the
\* radicand).
C3_IndicesFollowTable ==
    \A img \in IndexedImages :
        /\ \A name \in TableNames \cap DOMAIN img : img[name] = TableFormula(name, img)
        /\ "AVI" \in DOMAIN img => Pow(img["AVI"], 3) = AviRadicand(img)

\* The part of C3 that the code satisfies: the newer-sensor path
C3_NewerPathFollowsTable ==
    sensor = "L8" =>
        \A img \in IndexedImages :
            \A name \in TableNames \cap DOMAIN img : img[name] = TableFormula(name, img)

-----------------------------------------------------------------------------
(* C4 *)

RequiredBands ==
    {"NDVI", "NDMI", "NDWI", "MNDWI", "SR", "GCVI", "SAVI", "EVI", "CMRI", "MVI",
     "MSI", "GCI", "BSI", "PSRI", "LAI"} \cup Canon \cup {"elevation", "slope"}

\* C4: the image returned by either sensor path carries every index of the
\* battery that is not older-sensor-only, the six canonical bands, elevation
\* and slope.
C4_BatteryEmitted ==
    \A img \in IndexedImages : RequiredBands \subseteq DOMAIN img

-----------------------------------------------------------------------------
(* C5 *)

\* C5: no image of the newer-sensor path, at any stage up to the composite
\* l8 and the selected image, has a band AVI or GNDVI; the image returned
\* by addIndicesL5 has both.
C5_OlderOnlyBands ==
    /\ sensor = "L8" =>
          /\ \A i \in DOMAIN coll : DOMAIN coll[i] \cap {"AVI", "GNDVI"} = {}
          /\ DOMAIN comp \cap {"AVI", "GNDVI"} = {}
          /\ DOMAIN image \cap {"AVI", "GNDVI"} = {}
    /\ sensor = "L5" =>
          \A img \in IndexedImages : {"AVI", "GNDVI"} \subseteq DOMAIN img

\* The composite of the newer-sensor path has been built with its indices.
C5_Witness ==
    /\ sensor = "L8" /\ pc = "composite"
    /\ {"NDVI", "GCVI", "LAI"} \subseteq DOMAIN comp
    /\ "AVI" \notin DOMAIN comp /\ "GNDVI" \notin DOMAIN comp

-----------------------------------------------------------------------------
(* C6 *)

IndexNames == TableNames \cup {"AVI"}

\* The divisors that occur in the table's own formula of an index
OwnDivisors(name, img) ==
    LET B == img["blue"].v
        G == img["green"].v
        R == img["red"].v
        N == img["nir"].v
        S1 == img["swir1"].v
    IN  CASE name = "NDVI" -> {RAdd(N, R)}
          [] name = "NDMI" -> {RAdd(img["swir2"].v, G)}
          [] name = "NDWI" -> {RAdd(G, N)}
          [] name = "MNDWI" -> {RAdd(G, S1)}
          [] name = "SR" -> {R}
          [] name = "GCVI" -> {G}
          [] name = "SAVI" -> {RAdd(RAdd(N, R), RNorm(1, 2))}
          [] name = "EVI" -> {RAdd(RSub(RAdd(N, RMul(RInt(6), R)),
                                        RMul(RNorm(15, 2), B)), RInt(1))}
          [] name = "MVI" -> {RSub(S1, G)}
          [] name = "MSI" -> {N}
          [] name = "GCI" -> {G}
          [] name = "BSI" -> {RAdd(RAdd(S1, R), RAdd(N, B))}
          [] name = "PSRI" -> {G}
          [] name = "GNDVI" -> {RSub(G, N)}
          [] OTHER -> {}

\* The divisors met when the band is computed on path s: those of the
\* expression as coded, and those of the bands it is computed from
Divisors(s, name, img) ==
    LET R == img["red"].v
        N == img["nir"].v
        S1 == img["swir1"].v
        S2 == img["swir2"].v
    IN  CASE name = "LAI" -> OwnDivisors("NDVI", img)
          [] name = "CMRI" -> OwnDivisors("NDVI", img) \cup OwnDivisors("NDWI", img)
          [] name = "MVI" /\ s = "L5" -> {RSub(S2, img["green"].v)}
          [] name = "MSI" /\ s = "L5" -> {S1}
          [] name = "BSI" /\ s = "L5" -> {RAdd(S2, R)}
          [] name = "GNDVI" /\ s = "L5" -> {RSub(R, N)}
          [] name = "AVI" -> {RInt(3)}
          [] OTHER -> OwnDivisors(name, img)

\* The indexed images whose canonical bands are all valid
ValidIndexed == {img \in IndexedImages : \A b \in Canon : img[b].m = 1}

\* C6: on the newer-sensor path a zero divisor of one index makes that index
\* band invalid, and that band only: every sibling index whose own formula
\* has no zero divisor is valid.
C6_OnlyThatBand ==
    sensor = "L8" =>
        \A img \in ValidIndexed :
            \A x \in IndexNames \cap DOMAIN img :
                RZero \in OwnDivisors(x, img) =>
                    /\ img[x].m = 0
                    /\ \A y \in (IndexNames \cap DOMAIN img) \ {x} :
                          RZero \notin OwnDivisors(y, img) => img[y].m = 1

\* The same statement where the platform answers a quotient by zero with an
\* invalid pixel (it fails there: LAI is computed from the NDVI band)
C6_OnlyThatBandWhereInvalid == zeroDivision = "invalid" => C6_OnlyThatBand

\* and where it answers with a valid 0 (it fails there: the band is valid)
C6_OnlyThatBandWhereZero == zeroDivision = "zero" => C6_OnlyThatBand

\* What the functions do on either path and under either answer: an index
\* band is invalid at a pixel exactly when the platform invalidates a
\* quotient by zero and a divisor met in computing the band is zero there,
\* the divisors of the bands it is computed from included (NDVI's for LAI,
\* NDVI's and NDWI's for CMRI); the input, canonical and terrain bands are
\* valid, and an image is returned for every input image.
C6_ZeroDivisorScoped ==
    /\ \A img \in ValidIndexed :
          /\ \A name \in IndexNames \cap DOMAIN img :
                img[name].m = 0 <=>
                    (zeroDivision = "invalid" /\ RZero \in Divisors(sensor, name, img))
          /\ \A b \in DOMAIN img \ IndexNames : img[b].m = 1
    /\ pc \in {"indexed", "returned"} => Len(coll) = Len(raw)

\* nir = red = 0 on the newer-sensor path where a quotient by zero is
\* invalid: NDVI and LAI are invalid, while NDMI, MVI and MNDWI are valid.
C6_InvalidReached ==
    /\ sensor = "L8" /\ zeroDivision = "invalid"
    /\ \E img \in ValidIndexed :
          /\ img["nir"].v = RZero /\ img["red"].v = RZero
          /\ img["NDVI"].m = 0 /\ img["LAI"].m = 0
          /\ img["NDMI"].m = 1 /\ img["MVI"].m = 1 /\ img["MNDWI"].m = 1

\* the same pixel where a quotient by zero is a valid 0: NDVI is a valid 0
\* and LAI the valid value 3.618 * 0 - 0.118
C6_ZeroReached ==
    /\ sensor = "L8" /\ zeroDivision = "zero"
    /\ \E img \in ValidIndexed :
          /\ img["nir"].v = RZero /\ img["red"].v = RZero
          /\ img["NDVI"] = Px(RZero, 1)
          /\ img["LAI"] = Px(RNorm(0 - 118, 1000), 1)

-----------------------------------------------------------------------------
(* C9 *)

\* The image addIndices was given: the filtered image, masked on the
\* newer-sensor path
IndexInput(i) == IF sensor = "L8" THEN maskL8sr(raw[i]) ELSE raw[i]

AddIndicesAppends ==
    pc \in {"indexed", "returned"} =>
        \A i \in DOMAIN coll :
            /\ DOMAIN IndexInput(i) \subseteq DOMAIN coll[i]
            /\ \A b \in DOMAIN IndexInput(i) : coll[i][b] = IndexInput(i)[b]
            /\ DOMAIN coll[i] # DOMAIN IndexInput(i)

\* C9 (as amended): addIndicesL8 / addIndicesL5 only append: every band of
\* the input is in the result under its name with its value and validity, and
\* bands were added; the median keeps the band set; the one step of the
\* script that removes bands is l8.select(selectedBands).clip(region), whose
\* result has exactly the seven selected bands, each with its value in the
\* composite, and valid exactly where the composite is valid and the pixel
\* lies inside region.
C9_AppendThenSelect ==
    /\ AddIndicesAppends
    /\ pc = "composite" => DOMAIN comp = DOMAIN coll[1]
    /\ pc = "selected" =>
          /\ DOMAIN image = selectedBands
          /\ \A b \in selectedBands :
                /\ image[b].v = comp[b].v
                /\ image[b].m = 1 <=> (comp[b].m = 1 /\ inRegion)
          /\ DOMAIN image # DOMAIN comp

\* The newer-sensor composite has been band-selected: the input band SR_B4
\* and the derived band SAVI of the composite are not in the selected image.
C9_Witness ==
    /\ sensor = "L8" /\ pc = "selected"
    /\ {"SR_B4", "SAVI", "NDVI"} \subseteq DOMAIN comp
    /\ "NDVI" \in DOMAIN image
    /\ "SR_B4" \notin DOMAIN image /\ "SAVI" \notin DOMAIN image

\* C9 (as stated): addIndices only appends, and over the whole script a
\* raster is changed only by adding bands, never by removing existing ones.
C9_NeverRemoves ==
    /\ AddIndicesAppends
    /\ pc = "composite" => DOMAIN coll[1] \subseteq DOMAIN comp
    /\ pc = "selected" => DOMAIN comp \subseteq DOMAIN image

-----------------------------------------------------------------------------
(* C7 *)

Near(p) == {q \in 1..GridW : Abs(q - p) <= 1}
ValidNear(p) == {q \in Near(p) : strip[q].m = 1}

\* The average of the valid pixels of the original row next to p
NearAverage(p) == RQuot(SumVals(strip, ValidNear(p)), RInt(Cardinality(ValidNear(p))))

\* The row of those averages, and the average of them next to p
SmoothedOnce == [q \in 1..GridW |->
                    IF ValidNear(q) = {} THEN Masked ELSE Px(NearAverage(q), 1)]
Reached(p) == {q \in Near(p) : ValidNear(q) # {}}
AverageOfAverages(p) == RQuot(SumVals(SmoothedOnce, Reached(p)), RInt(Cardinality(Reached(p))))

\* C7 (as amended): fillGap blends: a pixel with a valid original value keeps
\* exactly that value; an invalid pixel with a valid pixel within two kernel
\* steps (in particular one with a valid neighbour) becomes valid and takes
\* the mean filter applied twice, the average over its neighbourhood of the
\* averages of valid neighbours; an invalid pixel with no valid pixel that
\* near stays invalid.
C7_BlendOfTwiceSmoothed ==
    pc = "rowFilled" =>
        \A p \in 1..GridW :
            IF strip[p].m = 1 THEN filled[p] = strip[p]
            ELSE IF Reached(p) = {} THEN filled[p].m = 0
            ELSE filled[p] = Px(AverageOfAverages(p), 1)

\* An invalid pixel with valid neighbours was filled with a value that is
\* not the average of its valid neighbours, next to a valid pixel that kept
\* its value.
C7_Witness ==
    /\ pc = "rowFilled"
    /\ \E p \in 1..GridW :
          /\ strip[p].m = 0 /\ Cardinality(ValidNear(p)) = 2
          /\ filled[p].m = 1
          /\ filled[p].v # NearAverage(p)
          /\ \A q \in ValidNear(p) : filled[q] = strip[q]

\* C7 (as stated): a valid pixel keeps its value, and an invalid pixel with
\* at least one valid neighbour takes the average of its valid neighbours.
C7_AverageOfValidNeighbours ==
    pc = "rowFilled" =>
        \A p \in 1..GridW :
            /\ strip[p].m = 1 => filled[p] = strip[p]
            /\ (strip[p].m = 0 /\ ValidNear(p) # {}) => filled[p] = Px(NearAverage(p), 1)

-----------------------------------------------------------------------------
(* The class-area script *)

classesTable ==
    (1 :> "Mangrove") @@ (2 :> "Agriculture") @@ (3 :> "DenseVeg") @@ (4 :> "SparseVeg")
    @@ (5 :> "UrbanGreen") @@ (6 :> "Bare") @@ (7 :> "Artificial") @@ (8 :> "Water")

\* Faulty variant: two names of the legend list exchanged
classValuesSwapped ==
    <<"Mangrove", "Agriculture", "DenseVeg", "SparseVeg", "UrbanGreen", "Artificial",
      "Bare", "Water">>

classValuesList ==
    <<"Mangrove", "Agriculture", "DenseVeg", "SparseVeg", "UrbanGreen", "Bare",
      "Artificial", "Water">>

paletteList ==
    <<"b99470", "fefae0", "a9b388", "5f6f52", "f2d388", "c98474", "874c62", "a7d2cb">>

\* ee.List.sequence(1, 8)
values == [k \in 1..8 |-> k]

\* The area of one pixel at the reduction scale of 30 m, in square metres
scale == 30
pixelArea == scale * scale

\* calculateAreaForValue: the pixel areas of the pixels equal to value,
\* summed, in hectares
calculateAreaForValue(img, value) ==
    LET maskedImage == {k \in DOMAIN img : img[k] = value}
        area == Cardinality(maskedImage) * pixelArea
        areaInHectares == RNorm(area, 10000)
    IN  [value |-> value, area |-> areaInHectares]

\* Faulty variant: the stretch starting at 0, as in the classification script
visValueFromZero(v, min, max, pal) ==
    LET n == Len(pal)
        num == v * (n - 1)
        den == max
    IN  IF num % den = 0 THEN pal[num \div den + 1]
        ELSE pal[num \div den + 1] \o "~" \o pal[num \div den + 2]

\* image.visualize({min, max, palette}) at a pixel of value v: the value is
\* clamped to [min, max] and stretched over the palette; a value that falls
\* between two palette entries gets a colour between them.
visualize(v, min, max, pal) ==
    LET n == Len(pal)
        c == IF v < min THEN min ELSE IF v > max THEN max ELSE v
        num == (c - min) * (n - 1)
        den == max - min
    IN  IF num % den = 0 THEN pal[num \div den + 1]
        ELSE pal[num \div den + 1] \o "~" \o pal[num \div den + 2]

makeRow(color, name) == [color |-> color, name |-> name]

legendTitle == [color |-> "", name |-> "Vegetation Classes"]

InitArea ==
    /\ pc = "loaded"
    /\ classes = classesTable
    /\ classValues = None
    /\ palette = None
    /\ classified \in [1..NPix -> 1..8]
    /\ areas = None
    /\ classifiedImage = None
    /\ legend = None
    /\ iLegend = None
    /\ sensor = "none"
    /\ inRegion = None
    /\ zeroDivision = "unused"
    /\ raw = None /\ coll = None /\ comp = None /\ image = None
    /\ strip = None /\ filled = None
    /\ sample = None /\ correlations = None
    /\ samples = None /\ training = None /\ testing = None
    /\ trainFeatures = None /\ trainedRF = None /\ classifiedRF = None
    /\ confusionMatrixRF = None /\ classificationMetrics = None

compositeVars == <<sensor, inRegion, zeroDivision, raw, coll, comp, image, strip, filled, sample, correlations>>

\* areas = values.map(calculateAreaForValue), lines 56-61
ComputeAreas ==
    /\ pc = "loaded"
    /\ areas' = [k \in DOMAIN values |-> calculateAreaForValue(classified, values[k])]
    /\ pc' = "areas"
    /\ UNCHANGED <<classes, classValues, palette, classified, classifiedImage, legend, iLegend>>
    /\ UNCHANGED compositeVars
    /\ UNCHANGED classifyVars

\* var classValues = [...]; var palette = [...], lines 75-76
DefineLegendTables ==
    /\ pc = "areas"
    /\ classValues' = classValuesList
    /\ palette' = paletteList
    /\ pc' = "tables"
    /\ UNCHANGED <<classes, classified, areas, classifiedImage, legend, iLegend>>
    /\ UNCHANGED compositeVars
    /\ UNCHANGED classifyVars

\* classifiedImage = image.visualize({min: 1, max: 8, palette}), lines 79-83
Visualize ==
    /\ pc = "tables"
    /\ classifiedImage' = [k \in DOMAIN classified |-> visualize(classified[k], 1, 8, palette)]
    /\ pc' = "visualized"
    /\ UNCHANGED <<classes, classValues, palette, classified, areas, legend, iLegend>>
    /\ UNCHANGED compositeVars
    /\ UNCHANGED classifyVars

\* legend = ui.Panel(...); legend.add(legendTitle), lines 90-102
LegendTitle ==
    /\ pc = "visualized"
    /\ legend' = <<legendTitle>>
    /\ pc' = "legendTitled"
    /\ UNCHANGED <<classes, classValues, palette, classified, areas, classifiedImage, iLegend>>
    /\ UNCHANGED compositeVars
    /\ UNCHANGED classifyVars

\* the loop header's initialisation, var i = 0, line 131
LegendLoopStart ==
    /\ pc = "legendTitled"
    /\ iLegend' = 0
    /\ pc' = "legendLoop"
    /\ UNCHANGED <<classes, classValues, palette, classified, areas, classifiedImage, legend>>
    /\ UNCHANGED compositeVars
    /\ UNCHANGED classifyVars

\* one turn of the loop, lines 131-133
LegendRow ==
    /\ pc = "legendLoop"
    /\ iLegend < Len(classValues)
    /\ legend' = Append(legend, makeRow(palette[iLegend + 1], classValues[iLegend + 1]))
    /\ iLegend' = iLegend + 1
    /\ UNCHANGED <<pc, classes, classValues, palette, classified, areas, classifiedImage>>
    /\ UNCHANGED compositeVars
    /\ UNCHANGED classifyVars

\* the loop ends; Map.add(legend), line 136
LegendDone ==
    /\ pc = "legendLoop"
    /\ ~(iLegend < Len(classValues))
    /\ pc' = "legendShown"
    /\ UNCHANGED areaVars
    /\ UNCHANGED compositeVars
    /\ UNCHANGED classifyVars

NextArea ==
    \/ ComputeAreas
    \/ DefineLegendTables
    \/ Visualize
    \/ LegendTitle
    \/ LegendLoopStart
    \/ LegendRow
    \/ LegendDone

SpecArea == InitArea /\ [][NextArea]_vars

-----------------------------------------------------------------------------
(* C10 *)

\* The legend rows added so far (the widgets after the title)
LegendRows == IF legend = None THEN <<>> ELSE Tail(legend)

\* C10: the class tables are fixed and agree: once defined (classes at
\* lines 14-23, classValues and palette at lines 75-76) they stay so; for
\* every class value v in 1..8 the name classes[v] is the name classValues
\* gives row v; legend row v, once added, shows that name and the colour
\* palette gives row v; the visualisation (min 1, max 8, the 8-colour
\* palette) gives a pixel of value v the colour of legend row v; and the area
\* table has exactly one feature per value 1..8.
C10_ClassTableConsistent ==
    /\ classes = classesTable /\ DOMAIN classes = 1..8
    /\ pc \notin {"loaded", "areas"} =>
          /\ classValues = classValuesList /\ palette = paletteList
          /\ Len(classValues) = 8 /\ Len(palette) = 8
          /\ \A v \in 1..8 : classes[v] = classValues[v]
    /\ \A v \in DOMAIN LegendRows :
          LegendRows[v] = [color |-> palette[v], name |-> classes[v]]
    /\ pc = "legendShown" => Len(LegendRows) = 8
    /\ pc \in {"visualized", "legendTitled", "legendLoop", "legendShown"} =>
          \A k \in DOMAIN classified :
              /\ classifiedImage[k] = palette[classified[k]]
              /\ classified[k] \in DOMAIN LegendRows =>
                    classifiedImage[k] = LegendRows[classified[k]].color
    /\ pc # "loaded" =>
          /\ Len(areas) = 8
          /\ \A v \in 1..8 : Cardinality({k \in DOMAIN areas : areas[k].value = v}) = 1

\* The legend is complete and shown; two pixels of different class carry
\* the colours of their legend rows, and the areas are tabulated.
C10_Witness ==
    /\ pc = "legendShown" /\ Len(LegendRows) = 8
    /\ \E k, l \in DOMAIN classified :
          /\ classified[k] = 6 /\ classified[l] = 7
          /\ classifiedImage[k] = "c98474" /\ LegendRows[6].name = "Bare"
          /\ classifiedImage[l] = "874c62" /\ LegendRows[7].name = "Artificial"
    /\ areas[6].area = RNorm(9, 100)

-----------------------------------------------------------------------------
(* The classification script: sampling, train/test split, random forest,   *)
(* error matrix and exported metrics.  A feature is a function from        *)
(* property names to values; a feature collection is a sequence of         *)
(* features.                                                               *)

NSamples == 2      \* at most this many sampled points

year == 2016

\* var bands = [...], line 54 (the classifier's input properties)
classifierBands == <<"NDVI", "EVI", "MVI", "MSI", "elevation", "slope">>

\* var split = 0.7, line 66
split == RNorm(7, 10)

\* the values the 'random' column is given: normally distributed, so below 0
\* and above 1 occur, and the split value itself is among them
RandomVals == {RNorm(0 - 1, 2), RNorm(3, 10), RNorm(7, 10), RNorm(6, 5)}

LandcoverVals == {1, 2}

\* one feature of image.sampleRegions(...).randomColumn('random', ...)
SampledFeature(id, landcover, ndvi, random) ==
    [p \in {"system:index", "landcover", "random", "NDVI", "EVI", "MVI", "MSI",
            "elevation", "slope"} |->
        CASE p = "system:index" -> id
          [] p = "landcover" -> landcover
          [] p = "random" -> random
          [] p = "NDVI" -> ndvi
          [] OTHER -> 1]

\* the collections lines 57-62 can produce
SampleCollections ==
    UNION {[1..n -> LandcoverVals \X {0, 1} \X RandomVals] : n \in 1..NSamples}

\* ee.Filter.lt(property, value) on one feature
lt(f, property, value) == RLess(f[property], value)

\* Faulty variant: strictly-greater test, which drops the value itself.
gtStrict(f, property, value) == RLess(value, f[property])

\* ee.Filter.gte(property, value) on one feature
gte(f, property, value) == ~RLess(f[property], value)

\* collection.filter(ee.Filter.lt(property, value))
filterLt(c, property, value) == SelectSeq(c, LAMBDA f : lt(f, property, value))

\* collection.filter(ee.Filter.gte(property, value))
filterGte(c, property, value) == SelectSeq(c, LAMBDA f : gte(f, property, value))

\* feature.select(names): the listed properties, the feature's id kept
selectProperties(f, names) == [p \in names \cup {"system:index"} |-> f[p]]

\* collection.aggregate_count('.all')
aggregate_count(c) == Len(c)

RECURSIVE Distance(_, _, _, _)
\* distance of two features over the first n input properties
Distance(f, g, props, n) ==
    IF n = 0 THEN 0
    ELSE Abs(f[props[n]] - g[props[n]]) + Distance(f, g, props, n - 1)

\* classifier.train({features, classProperty, inputProperties})
train(features, classProperty, inputProperties) ==
    [features |-> features, classProperty |-> classProperty,
     inputProperties |-> inputProperties]

\* The class the trained classifier gives a feature.  The forest itself is
\* platform code; it is stood for by a function of the training features and
\* the input properties only: the class of the nearest training feature, the
\* smallest class among equally near ones, and class 0 when it was trained
\* on no feature.
predict(rf, f) ==
    LET d(k) == Distance(rf.features[k], f, rf.inputProperties, Len(rf.inputProperties))
        near == {k \in DOMAIN rf.features : \A l \in DOMAIN rf.features : d(k) <= d(l)}
        cls == {rf.features[k][rf.classProperty] : k \in near}
    IN  IF cls = {} THEN 0 ELSE CHOOSE c \in cls : \A e \in cls : c <= e

\* feature with the property 'classification' added
classify(f, rf) ==
    [p \in DOMAIN f \cup {"classification"} |->
        IF p = "classification" THEN predict(rf, f) ELSE f[p]]

\* the largest element of a set of class values, -1 for the empty set
MaxOf(S) == IF S = {} THEN 0 - 1 ELSE CHOOSE x \in S : \A y \in S : y <= x

\* collection.errorMatrix({actual, predicted}): counts per (actual, predicted),
\* rows the actual and columns the predicted class, both over 0..largest class
\* met
errorMatrix(c, actual, predicted) ==
    LET top == MaxOf({c[k][actual] : k \in DOMAIN c} \cup {c[k][predicted] : k \in DOMAIN c})
    IN  [a \in 0..top, q \in 0..top |->
            Cardinality({k \in DOMAIN c : c[k][actual] = a /\ c[k][predicted] = q})]

\* the largest class of an error matrix
MatrixTop(m) == MaxOf({e[1] : e \in DOMAIN m})

RECURSIVE SumOver(_, _)
\* f[0] + ... + f[n]
SumOver(f, n) == IF n < 0 THEN 0 ELSE f[n] + SumOver(f, n - 1)

RowTotal(m, a) == SumOver([q \in 0..MatrixTop(m) |-> m[a, q]], MatrixTop(m))
ColTotal(m, q) == SumOver([a \in 0..MatrixTop(m) |-> m[a, q]], MatrixTop(m))
MatrixTrace(m) == SumOver([a \in 0..MatrixTop(m) |-> m[a, a]], MatrixTop(m))
MatrixTotal(m) == SumOver([a \in 0..MatrixTop(m) |-> RowTotal(m, a)], MatrixTop(m))

\* the quotient n / d of two counts; 0 / 0 is not a number
NotANumber == <<0, 0>>
Ratio(n, d) == IF d = 0 THEN NotANumber ELSE RNorm(n, d)

\* confusionMatrix.array(): the rows of the matrix, line 118
array(m) == [a \in 1..(MatrixTop(m) + 1) |-> [q \in 1..(MatrixTop(m) + 1) |-> m[a - 1, q - 1]]]

\* confusionMatrix.producersAccuracy(): correct / row total, a column
producersAccuracy(m) ==
    [a \in 1..(MatrixTop(m) + 1) |-> <<Ratio(m[a - 1, a - 1], RowTotal(m, a - 1))>>]

\* confusionMatrix.consumersAccuracy(): correct / column total, a row
consumersAccuracy(m) ==
    <<[q \in 1..(MatrixTop(m) + 1) |-> Ratio(m[q - 1, q - 1], ColTotal(m, q - 1))]>>

\* confusionMatrix.fscore(): 2 * P * R / (P + R) per class
fscore(m) ==
    [a \in 1..(MatrixTop(m) + 1) |->
        LET P == consumersAccuracy(m)[1][a]
            R == producersAccuracy(m)[a][1]
        IN  IF P = NotANumber \/ R = NotANumber THEN NotANumber
            ELSE IF RAdd(P, R) = RZero THEN NotANumber
            ELSE RQuot(RMul(RInt(2), RMul(P, R)), RAdd(P, R))]

\* confusionMatrix.accuracy(): correct / total
accuracy(m) == Ratio(MatrixTrace(m), MatrixTotal(m))

\* confusionMatrix.kappa(): (po - pe) / (1 - pe), with po = trace / total and
\* pe = sum of (row total * column total) / total^2
kappa(m) ==
    LET n == MatrixTotal(m)
        e == SumOver([a \in 0..MatrixTop(m) |-> RowTotal(m, a) * ColTotal(m, a)], MatrixTop(m))
    IN  Ratio(MatrixTrace(m) * n - e, n * n - e)

\* classifier.schema(): the names of the classifier's inputs
schema(rf) == rf.inputProperties

\* var imageString = 'path/to/your/image' + year, line 17
imageString == "path/to/your/image2016"

InitClassification ==
    /\ pc = "sampled"
    /\ \E pts \in SampleCollections :
          samples = [k \in DOMAIN pts |-> SampledFeature(k, pts[k][1], pts[k][2], pts[k][3])]
    /\ training = None /\ testing = None /\ trainFeatures = None
    /\ trainedRF = None /\ classifiedRF = None
    /\ confusionMatrixRF = None /\ classificationMetrics = None
    /\ sensor = "none"
    /\ inRegion = None
    /\ zeroDivision = "unused"
    /\ raw = None /\ coll = None /\ comp = None /\ image = None
    /\ strip = None /\ filled = None
    /\ sample = None /\ correlations = None
    /\ classes = None /\ classValues = None /\ palette = None
    /\ classified = None /\ areas = None /\ classifiedImage = None
    /\ legend = None /\ iLegend = None

\* lines 66-71
SplitSamples ==
    /\ pc = "sampled"
    /\ training' = filterLt(samples, "random", split)
    /\ testing' = filterGte(samples, "random", split)
    /\ trainFeatures' =
          LET tr == filterLt(samples, "random", split)
          IN  [k \in DOMAIN tr |->
                  selectProperties(tr[k], {"NDVI", "EVI", "MVI", "MSI", "elevation",
                                           "slope", "landcover"})]
    /\ pc' = "split"
    /\ UNCHANGED <<samples, trainedRF, classifiedRF, confusionMatrixRF, classificationMetrics>>
    /\ UNCHANGED compositeVars
    /\ UNCHANGED areaVars

\* lines 98-102
TrainRF ==
    /\ pc = "split"
    /\ trainedRF' = train(trainFeatures, "landcover", classifierBands)
    /\ pc' = "trained"
    /\ UNCHANGED <<samples, training, testing, trainFeatures, classifiedRF,
                   confusionMatrixRF, classificationMetrics>>
    /\ UNCHANGED compositeVars
    /\ UNCHANGED areaVars

\* classifiedRF = testing.classify(trainedRF), line 105
ClassifyTesting ==
    /\ pc = "trained"
    /\ classifiedRF' = [k \in DOMAIN testing |-> classify(testing[k], trainedRF)]
    /\ pc' = "classified"
    /\ UNCHANGED <<samples, training, testing, trainFeatures, trainedRF,
                   confusionMatrixRF, classificationMetrics>>
    /\ UNCHANGED compositeVars
    /\ UNCHANGED areaVars

\* confusionMatrixRF = classifiedRF.errorMatrix(...), line 108
ErrorMatrix ==
    /\ pc = "classified"
    /\ confusionMatrixRF' = errorMatrix(classifiedRF, "landcover", "classification")
    /\ pc' = "evaluated"
    /\ UNCHANGED <<samples, training, testing, trainFeatures, trainedRF,
                   classifiedRF, classificationMetrics>>
    /\ UNCHANGED compositeVars
    /\ UNCHANGED areaVars

\* classificationMetrics = {...}, lines 158-174, with the values of lines
\* 109-118 that it collects
CollectMetrics ==
    /\ pc = "evaluated"
    /\ classificationMetrics' =
          [year |-> year,
           imageId |-> imageString,
           testSetN |-> aggregate_count(testing),
           trainSetN |-> aggregate_count(training),
           totalSamples |-> aggregate_count(samples),
           trainTestSplit |-> split,
           bands |-> classifierBands,
           RF_modelSchema |-> schema(trainedRF),
           RF_recall |-> producersAccuracy(confusionMatrixRF),
           RF_precision |-> consumersAccuracy(confusionMatrixRF),
           RF_fscore |-> fscore(confusionMatrixRF),
           RF_kappa |-> kappa(confusionMatrixRF),
           RF_overall_precision |-> accuracy(confusionMatrixRF),
           RF_overall_recall |-> consumersAccuracy(confusionMatrixRF),
           RF_confusionMatrix |-> array(confusionMatrixRF)]
    /\ pc' = "metrics"
    /\ UNCHANGED <<samples, training, testing, trainFeatures, trainedRF,
                   classifiedRF, confusionMatrixRF>>
    /\ UNCHANGED compositeVars
    /\ UNCHANGED areaVars

NextClassification ==
    \/ SplitSamples
    \/ TrainRF
    \/ ClassifyTesting
    \/ ErrorMatrix
    \/ CollectMetrics

SpecClassification == InitClassification /\ [][NextClassification]_vars

-----------------------------------------------------------------------------
(* C11 *)

\* the ids of the features of a collection
Ids(c) == {c[k]["system:index"] : k \in DOMAIN c}

\* the 'random' value of a feature lies below 0.7, in integer arithmetic
BelowSplit(f) == 10 * f["random"][1] < 7 * f["random"][2]

SplitStages == {"split", "trained", "classified", "evaluated", "metrics"}

\* C11: the train/test split is a partition of the samples: every sample is
\* in exactly one of training (random < 0.7) and testing (random >= 0.7), so
\* the two counts add up to the number of samples; the classifier is trained
\* only on features of training, the error matrix counts only features of
\* testing, and no sample is used both to train and to evaluate.
C11_TrainTestPartition ==
    /\ pc \in SplitStages =>
          /\ \A k \in DOMAIN samples :
                /\ samples[k]["system:index"] \in Ids(training) <=> BelowSplit(samples[k])
                /\ samples[k]["system:index"] \in Ids(testing) <=> ~BelowSplit(samples[k])
          /\ \A k \in DOMAIN training : \E l \in DOMAIN samples : training[k] = samples[l]
          /\ \A k \in DOMAIN testing : \E l \in DOMAIN samples : testing[k] = samples[l]
          /\ Cardinality(Ids(training)) = Len(training)
          /\ Cardinality(Ids(testing)) = Len(testing)
          /\ Ids(training) \cap Ids(testing) = {}
          /\ Len(training) + Len(testing) = Len(samples)
          /\ Ids(trainFeatures) = Ids(training)
    /\ pc \in SplitStages \ {"split"} =>
          /\ Ids(trainedRF.features) \subseteq Ids(training)
          /\ Ids(trainedRF.features) \cap Ids(testing) = {}
    /\ pc \in {"classified", "evaluated", "metrics"} =>
          /\ Ids(classifiedRF) = Ids(testing)
          /\ Ids(classifiedRF) \cap Ids(trainedRF.features) = {}
    /\ pc \in {"evaluated", "metrics"} =>
          /\ \A e \in DOMAIN confusionMatrixRF :
                confusionMatrixRF[e] =
                    Cardinality({k \in DOMAIN testing :
                                    /\ testing[k]["landcover"] = e[1]
                                    /\ classifiedRF[k]["classification"] = e[2]})
          /\ \A k \in DOMAIN testing :
                <<testing[k]["landcover"], classifiedRF[k]["classification"]>>
                    \in DOMAIN confusionMatrixRF
          /\ MatrixTotal(confusionMatrixRF) = Len(testing)
    /\ pc = "metrics" =>
          /\ classificationMetrics.trainSetN + classificationMetrics.testSetN
                = classificationMetrics.totalSamples
          /\ classificationMetrics.totalSamples = Len(samples)
          /\ classificationMetrics.RF_confusionMatrix = array(confusionMatrixRF)

\* The metrics are collected for two samples, one drawn below the split value
\* and one exactly at it: the first trained the classifier, the second alone
\* is counted in the error matrix.
C11_Witness ==
    /\ pc = "metrics" /\ Len(samples) = 2
    /\ samples[1]["random"] = RNorm(3, 10) /\ samples[2]["random"] = RNorm(7, 10)
    /\ samples[1]["landcover"] = 2 /\ samples[2]["landcover"] = 1
    /\ Ids(trainedRF.features) = {1} /\ Ids(classifiedRF) = {2}
    /\ classificationMetrics.trainSetN = 1 /\ classificationMetrics.testSetN = 1
    /\ confusionMatrixRF[1, 2] = 1

-----------------------------------------------------------------------------
(* C12 *)

\* the band names of the correlation list
CorrelationBands == {bands[n] : n \in DOMAIN bands}

\* C12: every band name the pairwise correlation is computed over is a band
\* of the image that was sampled, and every band of that image is a band of
\* the images addIndicesL8 emitted.
C12_CorrelationBandsSampled ==
    pc = "correlated" =>
        /\ CorrelationBands \subseteq DOMAIN image
        /\ \A k \in DOMAIN sample : CorrelationBands \subseteq DOMAIN sample[k]
        /\ \A k \in DOMAIN coll : DOMAIN image \subseteq DOMAIN coll[k]

\* The second inclusion alone: the sampled image carries exactly the
\* selected bands, and each of them is a band of every indexed image.
C12_SampledBandsEmitted ==
    pc \in {"selected", "imageSampled", "correlated"} =>
        /\ DOMAIN image = selectedBands
        /\ \A k \in DOMAIN sample : DOMAIN sample[k] = selectedBands
        /\ \A k \in DOMAIN coll : DOMAIN image \subseteq DOMAIN coll[k]

\* The correlation bands outside the sampled image, and those outside the
\* bands of the indexed images as well.
C12_Outside ==
    pc = "correlated" =>
        /\ CorrelationBands \ DOMAIN image =
              {"blue", "green", "red", "nir", "swir1", "swir2", "NDMI", "NDWI", "SR",
               "GCVI", "SAVI", "CMRI", "GNDVI", "AVI", "GCI", "PSRI", "LAI"}
        /\ \A k \in DOMAIN coll :
              CorrelationBands \ DOMAIN coll[k] = {"CMRI", "GNDVI", "AVI"}
        /\ \A n, o \in DOMAIN bands :
              (Len(sample) > 0 /\ {bands[n], bands[o]} \subseteq selectedBands)
                 <=> Len(correlations[n][o].inputs) = 1

====
